---- MODULE Spec2Model ----
(***************************************************************************)
(* Traffic simulator front end: the useWebSocket hook (connection manager) *)
(* as it is driven by the App component (session orchestrator).            *)
(*                                                                         *)
(* Scheduling model: JavaScript is single threaded, so every handler       *)
(* (socket event, timer callback, promise continuation, click) is one      *)
(* atomic action.  React state setters only record the new value; the      *)
(* re-render and the passive effects it triggers run later, as the action  *)
(* Commit.  An update made inside a click handler is flushed before the    *)
(* handler's task ends, so the click actions include the commit.           *)
(***************************************************************************)
EXTENDS Integers, Sequences, FiniteSets, Bags, TLC

\* ---------------------------------------------------------------- bounds
MaxSockets   == 3      \* WebSocket objects alive (not CLOSED) at once
MaxTimers    == 2      \* reconnect timeouts pending at once
MaxIntervals == 2      \* step intervals alive at once
MaxSims      == 2      \* simulations the backend creates in one run
MaxStep      == 1      \* distinct snapshots per simulation
MaxMsgs      == 3      \* inbound messages recorded in the stream log
TimeStepMs   == 1000   \* granularity of the clock
MaxFrames    == 2      \* snapshot objects SimulationCanvas is given
MaxClock     == 1      \* clock steps SimulationCanvas lives through
MaxVehicles  == 1      \* distinct vehicles in the payloads
MaxSpeed     == 10     \* vehicle speeds
MaxWait      == 1      \* vehicle waiting times

\* ------------------------------------------------------ program constants
ReconnectDelayMs == 2000
StepIntervalMs   == 100
FallbackSteps    == 10      \* App.handleStep: stepSimulation(simulationId, 10)
PanelSteps       == 10      \* ControlPanel.handleStep: the same call
GridDefault      == 50      \* SimulationCanvas: grid_width / grid_height
GridMax          == 100     \* ControlPanel: the sliders' upper end
CanvasWidth      == 800     \* <canvas width={800}>
CanvasHeight     == 600     \* <canvas height={600}>

Null == 0

\* A simulation configuration, by three of its fields.  PanelDefaults is the
\* initial config state of ControlPanel, CreateConfig the literal both
\* createSimulation calls of App pass, NoCfg what the backend holds for a
\* simulation not created yet.
Cfg(n, w) == [num_vehicles |-> n, grid_width |-> w, algorithm |-> "static"]
PanelDefaults == Cfg(20, 50)
CreateConfig  == Cfg(20, 50)
NoCfg         == [Cfg(0, 0) EXCEPT !.algorithm = ""]
\* The algorithms the panel offers.
AlgorithmIds == {"static", "adaptive", "coordinated"}
\* The values the sliders are moved to.
ConfigValues(key) == IF key = "num_vehicles" THEN {20, 40} ELSE {50, 100}

IntvIds == 1..MaxIntervals
SimIds  == 1..MaxSims

\* The held snapshot before anything arrived: useState({}).
EmptyState == [sim |-> Null, step |-> 0]
Snapshots  == [sim : SimIds, step : 1..MaxStep]
SnapshotsOf(sim) == {x \in Snapshots : x.sim = sim}

\* A WebSocket object: its readyState and the simId of the connect closure
\* that made it (its URL, and the simId its handlers see).  NullWs is the
\* null reference.
NullWs == [state |-> "NULL", sim |-> Null]
NewWs(sim) == [state |-> "CONNECTING", sim |-> sim]

\* A timeout id as a ref holds it: null, pending, or dead (fired or cleared).
NullTimer == [ref |-> "null", remaining |-> 0, sim |-> Null, unexpected |-> FALSE]
DeadTimer == [ref |-> "dead", remaining |-> 0, sim |-> Null, unexpected |-> FALSE]

\* Inbound frames: raw text as the server (or anything else) may send it.
PingMsg      == [kind |-> "ping", data |-> EmptyState]
PongMsg      == [kind |-> "pong", data |-> EmptyState]
MalformedMsg == [kind |-> "malformed", data |-> EmptyState]
SnapshotMsg(s) == [kind |-> "snapshot", data |-> s]
MessagesOf(sim) ==
    {PingMsg, PongMsg, MalformedMsg} \cup {SnapshotMsg(s) : s \in SnapshotsOf(sim)}

VARIABLES
    \* App state (useState in App)
    simulationId, simulationState, metrics, historicalMetrics,
    isRunning, isLoading, error,
    \* hook state (useState in useWebSocket)
    isConnected, wsError,
    \* hook refs, each with the browser object it names: the WebSocket of
    \* wsRef, the timeout of reconnectTimeoutRef, the interval id of
    \* stepIntervalRef
    wsRef, reconnectTimeoutRef, stepIntervalRef,
    \* browser objects no ref names any more: WebSockets not yet CLOSED (a
    \* bag), timeouts still pending (a bag); and the live interval ids
    orphans, leaked, intervals,
    \* React: the values the last committed render saw, and whether an
    \* object-valued state was replaced since
    rendered, objDirty,
    \* asynchronous handlers in flight
    createPc, restartPc, stepPc,
    \* the backend's simulation counter
    simCount,
    \* observation: inbound stream log, handler invocations, last step taken
    inbox, delivered, lastOp,
    \* SimulationCanvas: the props of its last render, the dependencies React
    \* keeps for its draw effect, the surface of the <canvas> element, the
    \* wall clock, the snapshot objects made so far, and the last step taken
    canvasProps, drawDeps, canvas, clock, parsed, canvasOp,
    \* ControlPanel's config state (useState), and the configuration the
    \* backend holds for each simulation
    panelConfig, simConfigs,
    \* ControlPanel.handleAlgorithmChange in flight, with ControlPanel's
    \* isLoading state
    algoPc,
    \* the renderers: what the last call of one put on the screen, with
    \* the grid size and the click callback it was given
    marker

appVars  == <<simulationId, simulationState, metrics, historicalMetrics,
              isRunning, isLoading, error>>
hookVars == <<isConnected, wsError, wsRef, reconnectTimeoutRef, stepIntervalRef,
              orphans, leaked, intervals>>
surfaceVars == <<canvasProps, drawDeps, canvas, clock, parsed, canvasOp>>
canvasVars == <<surfaceVars, marker>>
configVars == <<panelConfig, simConfigs, algoPc>>
pageVars == <<appVars, hookVars, rendered, objDirty, createPc, restartPc,
              stepPc, simCount, inbox, delivered, lastOp, configVars>>
vars == <<pageVars, canvasVars>>

\* ------------------------------------------------------------ hook memory
\* The hook's state and refs, and the browser objects, as one record, so
\* that the hook's functions compose as functions on it.
Mem ==
    [isConnected |-> isConnected, wsError |-> wsError, wsRef |-> wsRef,
     reconnectTimeoutRef |-> reconnectTimeoutRef,
     stepIntervalRef |-> stepIntervalRef,
     orphans |-> orphans, leaked |-> leaked, intervals |-> intervals]

Store(m) ==
    /\ isConnected' = m.isConnected
    /\ wsError' = m.wsError
    /\ wsRef' = m.wsRef
    /\ reconnectTimeoutRef' = m.reconnectTimeoutRef
    /\ stepIntervalRef' = m.stepIntervalRef
    /\ orphans' = m.orphans
    /\ leaked' = m.leaked
    /\ intervals' = m.intervals

Min(S) == CHOOSE x \in S : \A y \in S : x <= y

One(x) == SetToBag({x})

\* ---------------------------------------------------------- browser API
\* WebSocket.close(): CONNECTING or OPEN becomes CLOSING, else nothing.
WsClose(ws) ==
    IF ws.state \in {"CONNECTING", "OPEN"} THEN [ws EXCEPT !.state = "CLOSING"]
    ELSE ws

\* Assigning wsRef.current: the object it named stays alive, unreferenced,
\* until it is CLOSED.
SetWsRef(m, ws) ==
    [m EXCEPT !.wsRef = ws,
              !.orphans = IF m.wsRef.state \in {"CONNECTING", "OPEN", "CLOSING"}
                          THEN @ (+) One(m.wsRef) ELSE @]

LiveSockets(m) ==
    BagCardinality(m.orphans)
    + (IF m.wsRef.state \in {"CONNECTING", "OPEN", "CLOSING"} THEN 1 ELSE 0)

\* Assigning reconnectTimeoutRef.current: a pending timeout it named stays
\* pending.
SetTimerRef(m, t) ==
    [m EXCEPT !.reconnectTimeoutRef = t,
              !.leaked = IF m.reconnectTimeoutRef.ref = "pending"
                         THEN @ (+) One(m.reconnectTimeoutRef) ELSE @]

PendingTimers(m) ==
    BagCardinality(m.leaked)
    + (IF m.reconnectTimeoutRef.ref = "pending" THEN 1 ELSE 0)

\* clearTimeout(reconnectTimeoutRef.current); the ref keeps the dead id.
ClearTimeoutRef(m) ==
    IF m.reconnectTimeoutRef.ref = "pending"
    THEN [m EXCEPT !.reconnectTimeoutRef = DeadTimer]
    ELSE m

ClearIntervalNoopMutant(m, i) == m
ClearInterval(m, i) == [m EXCEPT !.intervals = @ \ {i}]
FreeIntvIds(m) == IntvIds \ m.intervals

\* ------------------------------------------------------- useWebSocket.js
\* connect (useCallback): sim is the simId of the closure.
ConnectNoCloseMutant(m, sim) ==
    IF sim = Null THEN m
    ELSE SetWsRef(m, NewWs(sim))

connect(m, sim) ==
    IF sim = Null THEN m
    ELSE LET m1 == IF m.wsRef # NullWs
                   THEN [m EXCEPT !.wsRef = WsClose(m.wsRef)]
                   ELSE m
         IN  SetWsRef(m1, NewWs(sim))

\* Whether the browser model has a WebSocket object left for connect.
CanConnect(m, sim) ==
    sim = Null \/
    BagCardinality(m.orphans)
      + (IF m.wsRef.state \in {"CONNECTING", "OPEN", "CLOSING"} THEN 1 ELSE 0)
      < MaxSockets

\* ws.onopen
onopen(m) == [m EXCEPT !.isConnected = TRUE, !.wsError = FALSE]

\* ws.onerror
onerror(m) == [m EXCEPT !.wsError = TRUE, !.isConnected = FALSE]

\* ws.onclose without the reconnect schedule.
OnCloseNoRetryMutant(m, sim, unexpected) ==
    LET m1 == [m EXCEPT !.isConnected = FALSE]
    IN  IF m1.stepIntervalRef # Null
        THEN [ClearInterval(m1, m1.stepIntervalRef) EXCEPT !.stepIntervalRef = Null]
        ELSE m1

\* ws.onclose of a socket whose closure holds simId sim; unexpected tells
\* whether the socket closed without close() having been called on it.
onclose(m, sim, unexpected) ==
    LET m1 == [m EXCEPT !.isConnected = FALSE]
        m2 == IF m1.stepIntervalRef # Null
              THEN [ClearInterval(m1, m1.stepIntervalRef)
                       EXCEPT !.stepIntervalRef = Null]
              ELSE m1
    IN  IF sim # Null
        THEN SetTimerRef(m2, [ref |-> "pending", remaining |-> ReconnectDelayMs,
                              sim |-> sim, unexpected |-> unexpected])
        ELSE m2

SendStepNoReadyStateMutant(m) ==
    IF m.wsRef # NullWs THEN 1 ELSE 0

\* sendStep: the number of frames it puts on the wire.
sendStep(m) ==
    IF m.wsRef # NullWs /\ m.wsRef.state = "OPEN" THEN 1 ELSE 0

\* disconnect (useCallback)
disconnect(m) ==
    LET m1 == IF m.reconnectTimeoutRef # NullTimer
              THEN [ClearTimeoutRef(m) EXCEPT !.reconnectTimeoutRef = NullTimer]
              ELSE m
        m2 == IF m1.stepIntervalRef # Null
              THEN [ClearInterval(m1, m1.stepIntervalRef)
                       EXCEPT !.stepIntervalRef = Null]
              ELSE m1
    IN  IF m2.wsRef # NullWs
        THEN [SetWsRef([m2 EXCEPT !.wsRef = WsClose(m2.wsRef)], NullWs)
                 EXCEPT !.isConnected = FALSE]
        ELSE m2

\* useEffect (step interval), deps [isRunning, isConnected, sendStep]
StepEffectCleanup(m) ==
    IF m.stepIntervalRef # Null THEN ClearInterval(m, m.stepIntervalRef) ELSE m

StepEffectBody(m, running, connected) ==
    IF running /\ connected
    THEN LET i == Min(FreeIntvIds(m)) IN
         [m EXCEPT !.intervals = @ \cup {i}, !.stepIntervalRef = i]
    ELSE IF m.stepIntervalRef # Null
         THEN [ClearInterval(m, m.stepIntervalRef) EXCEPT !.stepIntervalRef = Null]
         ELSE m

\* useEffect (simId lifecycle), deps [simId, connect, disconnect]
LifecycleCleanup(m, prevSim) ==
    IF prevSim # Null THEN disconnect(m)
    ELSE IF m.reconnectTimeoutRef # NullTimer
         THEN ClearTimeoutRef(m)
         ELSE m

LifecycleBody(m, sim) == connect(m, sim)

\* ws.onmessage without the pong half of the keep-alive filter.
OnMessagePongMutant(msg) ==
    IF msg.kind = "malformed" THEN <<>>
    ELSE IF msg.kind = "ping" THEN <<>>
    ELSE <<msg.data>>

\* ws.onmessage with the parse failure not caught before the handler call.
OnMessageNoCatchMutant(msg) ==
    IF msg.kind = "ping" \/ msg.kind = "pong" THEN <<>>
    ELSE <<msg.data>>

\* ws.onmessage: the data it hands to onMessage (none, or one snapshot).
onmessage(msg) ==
    IF msg.kind = "malformed" THEN <<>>              \* JSON.parse throws
    ELSE IF msg.kind = "ping" \/ msg.kind = "pong" THEN <<>>
    ELSE <<msg.data>>

\* ---------------------------------------------------------------- App.jsx
\* setSimulationState(data) with a merge of the fields of the held snapshot.
SetSimulationStateMergeMutant(held, data) ==
    [data EXCEPT !.step = IF held.step > @ THEN held.step ELSE @,
                 !.sim = IF held.sim # Null THEN held.sim ELSE @]

\* setSimulationState(data): the held reference is replaced by data.
setSimulationState(held, data) == data

\* data.metrics || {} and data.historical_metrics || {}: the objects the
\* snapshot data carries, named by the snapshot they come from.
MetricsOf(data) == data
HistoryOf(data) == data

\* ------------------------------------------------------------------ React
\* What a render of App sees of the state.
View(sid, run, con, werr, load, err) ==
    [simId |-> sid, isRunning |-> run, isConnected |-> con, wsError |-> werr,
     isLoading |-> load, error |-> err]

CurrentView ==
    View(simulationId, isRunning, isConnected, wsError, isLoading, error)

\* A render is pending when some state differs from what was rendered.
Dirty == objDirty \/ CurrentView # rendered

\* The passive effects of one commit: the cleanups of the previous render's
\* effects in order, then the bodies in order.  The step effect runs when
\* isRunning or isConnected changed; the lifecycle effect runs on every
\* render, because App passes a new onMessage function on every render and
\* connect is memoised on [simId, onMessage].
StepDepsChanged(old, new) ==
    old.isRunning # new.isRunning \/ old.isConnected # new.isConnected

EffectsBeforeConnect(m, old, new) ==
    LET m1 == IF StepDepsChanged(old, new) THEN StepEffectCleanup(m) ELSE m
        m2 == LifecycleCleanup(m1, old.simId)
    IN  IF StepDepsChanged(old, new)
        THEN StepEffectBody(m2, new.isRunning, new.isConnected)
        ELSE m2

RunEffects(m, old, new) ==
    LifecycleBody(EffectsBeforeConnect(m, old, new), new.simId)

CanRunEffects(m, old, new) ==
    /\ FreeIntvIds(LifecycleCleanup(m, old.simId)) # {}
    /\ CanConnect(EffectsBeforeConnect(m, old, new), new.simId)

\* ControlPanel's config state after a render of App: kept while the main
\* screen is returned, gone with the component when the loading or the
\* error screen is returned, and the initial one when it mounts again.
PanelAfterRender(config, new) ==
    IF ~new.isLoading /\ new.error = "none" THEN config ELSE PanelDefaults

\* Render with the state `new` and run the effects on memory m.
DoCommit(m, new, objChanged) ==
    IF new = rendered /\ ~objChanged
    THEN /\ Store(m)
         /\ UNCHANGED <<rendered, panelConfig>>
         /\ objDirty' = FALSE
    ELSE /\ CanRunEffects(m, rendered, new)
         /\ Store(RunEffects(m, rendered, new))
         /\ rendered' = new
         /\ objDirty' = FALSE
         /\ panelConfig' = PanelAfterRender(panelConfig, new)

Op(name, sent) ==
    [name |-> name, sent |-> sent, kind |-> "", handled |-> 0,
     data |-> EmptyState]

Commit ==
    /\ Dirty
    /\ DoCommit(Mem, CurrentView, objDirty)
    /\ UNCHANGED <<canvasVars, simConfigs, algoPc>>
    /\ lastOp' = Op("commit", 0)
    /\ UNCHANGED <<appVars, createPc, restartPc, stepPc, simCount, inbox, delivered>>

\* --------------------------------------------------- WebSocket event tasks
asyncVars == <<rendered, createPc, restartPc, stepPc, simCount>>

\* The WebSocket objects events can arrive for: the one wsRef names and
\* the unreferenced ones.
Sockets ==
    {<<"ref", wsRef>>} \cup {<<"orphan", ws>> : ws \in BagToSet(orphans)}

\* Memory with the readyState of socket h changed; an unreferenced socket
\* that is CLOSED is garbage.
WithState(m, h, st) ==
    IF h[1] = "ref" THEN [m EXCEPT !.wsRef.state = st]
    ELSE [m EXCEPT !.orphans =
            IF st = "CLOSED" THEN @ (-) One(h[2])
            ELSE (@ (-) One(h[2])) (+) One([h[2] EXCEPT !.state = st])]

\* The connection is established: readyState OPEN, then onopen.
SocketOpen(h) ==
    /\ h[2].state = "CONNECTING"
    /\ Store(onopen(WithState(Mem, h, "OPEN")))
    /\ UNCHANGED <<canvasVars, configVars>>
    /\ lastOp' = Op("open", 0)
    /\ UNCHANGED <<appVars, asyncVars, objDirty, inbox, delivered>>

\* A frame arrives on an OPEN socket: onmessage, and through it App's
\* handler (setSimulationState, setMetrics, setHistoricalMetrics).
MessageTask(h, msg) ==
    /\ h[2].state = "OPEN"
    /\ msg \in MessagesOf(h[2].sim)
    /\ IF onmessage(msg) # <<>>
       THEN /\ simulationState' =
                    setSimulationState(simulationState, onmessage(msg)[1])
            /\ metrics' = MetricsOf(onmessage(msg)[1])
            /\ historicalMetrics' = HistoryOf(onmessage(msg)[1])
            /\ objDirty' = TRUE
       ELSE UNCHANGED <<simulationState, metrics, historicalMetrics, objDirty>>
    /\ UNCHANGED <<canvasVars, configVars>>
    /\ lastOp' = [name |-> "message", sent |-> 0, kind |-> msg.kind,
                  handled |-> Len(onmessage(msg)), data |-> msg.data]
    /\ UNCHANGED <<simulationId, isRunning, isLoading, error, hookVars, asyncVars>>

SocketMessage(h, msg) ==
    /\ MessageTask(h, msg)
    /\ UNCHANGED <<inbox, delivered>>

\* The same task, with the stream and the handler's invocations recorded.
RecordedMessage(h, msg) ==
    /\ Len(inbox) < MaxMsgs
    /\ MessageTask(h, msg)
    /\ inbox' = Append(inbox, msg)
    /\ delivered' = delivered \o onmessage(msg)

\* How a socket in this readyState comes to close: after close() was called
\* on it, or not.
CloseKind(ws) == IF ws.state = "CLOSING" THEN "client" ELSE "unexpected"

\* The connection is closed cleanly: readyState CLOSED, then onclose.
SocketClose(h) ==
    /\ h[2].state \in {"OPEN", "CLOSING"}
    /\ PendingTimers(Mem) < MaxTimers
    /\ Store(onclose(WithState(Mem, h, "CLOSED"), h[2].sim,
                     CloseKind(h[2]) = "unexpected"))
    /\ UNCHANGED <<canvasVars, configVars>>
    /\ lastOp' = [Op("close", 0) EXCEPT !.kind = CloseKind(h[2])]
    /\ UNCHANGED <<appVars, asyncVars, objDirty, inbox, delivered>>

\* The connection fails: readyState CLOSED, then onerror, then onclose, in
\* one task.
SocketError(h) ==
    /\ h[2].state \in {"CONNECTING", "OPEN", "CLOSING"}
    /\ PendingTimers(Mem) < MaxTimers
    /\ Store(onclose(onerror(WithState(Mem, h, "CLOSED")), h[2].sim,
                     CloseKind(h[2]) = "unexpected"))
    /\ UNCHANGED <<canvasVars, configVars>>
    /\ lastOp' = [Op("close", 0) EXCEPT !.kind = CloseKind(h[2])]
    /\ UNCHANGED <<appVars, asyncVars, objDirty, inbox, delivered>>

\* ------------------------------------------------------------------ timers
Elapse(t) ==
    [t EXCEPT !.remaining = IF @ > TimeStepMs THEN @ - TimeStepMs ELSE 0]

\* The pending timeouts: the one the ref names and the leaked ones.
Timers ==
    (IF reconnectTimeoutRef.ref = "pending" THEN {<<"ref", reconnectTimeoutRef>>}
     ELSE {})
    \cup {<<"leaked", t>> : t \in BagToSet(leaked)}

\* Time passes: every pending timeout gets closer to its deadline.  React
\* renders a pending update within the same frame, so no clock step goes by
\* while a render is pending.
Tick ==
    /\ ~Dirty
    /\ \E h \in Timers : h[2].remaining > 0
    /\ reconnectTimeoutRef' = Elapse(reconnectTimeoutRef)
    /\ leaked' = BagOfAll(Elapse, leaked)
    /\ UNCHANGED <<canvasVars, configVars>>
    /\ lastOp' = Op("other", 0)
    /\ UNCHANGED <<appVars, asyncVars, objDirty, inbox, delivered, isConnected,
                   wsError, wsRef, stepIntervalRef, orphans, intervals>>

\* The reconnect timeout h fires: its callback calls the connect of the
\* closure that scheduled it.  A ref that names it keeps the dead id.
ReconnectFire(h) ==
    /\ h[2].remaining = 0
    /\ CanConnect(Mem, h[2].sim)
    /\ Store(connect(IF h[1] = "ref"
                     THEN [Mem EXCEPT !.reconnectTimeoutRef = DeadTimer]
                     ELSE [Mem EXCEPT !.leaked = @ (-) One(h[2])],
                     h[2].sim))
    /\ UNCHANGED <<canvasVars, configVars>>
    /\ lastOp' = [Op("reconnect", 0) EXCEPT !.kind = h[1]]
    /\ UNCHANGED <<appVars, asyncVars, objDirty, inbox, delivered>>

\* The step interval i fires: the callback calls sendStep.
IntervalFire(i) ==
    /\ i \in intervals
    /\ UNCHANGED <<canvasVars, configVars>>
    /\ lastOp' = Op("pace", sendStep(Mem))
    /\ UNCHANGED <<appVars, hookVars, asyncVars, objDirty, inbox, delivered>>

\* -------------------------------------------------------------------- App
\* The main screen (with its buttons) is what the last render returned.
MainScreen == ~rendered.isLoading /\ rendered.error = "none"

IdleCreate  == [pc |-> "done", id |-> Null, snap |-> EmptyState]
\* A restart: where the handler is, the identifier createSimulation gave
\* it (kept once the restart has succeeded), and what the control panel
\* showed when the button was clicked.
IdleRestart == [pc |-> "idle", id |-> Null, panel |-> PanelDefaults]
\* A step request: where its handlers are, the props its closures hold,
\* and what it has issued so far: stepSimulation calls and the steps they
\* ask for, advance signals on the channel, getSimulationState calls.
IdleStep    == [pc |-> "idle", simId |-> Null, isConnected |-> FALSE,
                outcome |-> "none", calls |-> 0, steps |-> 0, sent |-> 0,
                fetches |-> 0]

\* createNewSimulation (mount effect): createSimulation resolved.
CreateResolved ==
    /\ createPc.pc = "create"
    /\ simCount < MaxSims
    /\ simCount' = simCount + 1
    /\ simulationId' = simCount + 1
    /\ createPc' = [createPc EXCEPT !.pc = "state", !.id = simCount + 1]
    /\ simConfigs' = [simConfigs EXCEPT ![simCount + 1] = CreateConfig]
    /\ UNCHANGED <<canvasVars, panelConfig, algoPc>>
    /\ lastOp' = Op("other", 0)
    /\ UNCHANGED <<simulationState, metrics, historicalMetrics, isRunning,
                   isLoading, error, hookVars, rendered, objDirty, restartPc,
                   stepPc, inbox, delivered>>

\* createNewSimulation: getSimulationState resolved with snapshot s.
CreateStateResolved(s) ==
    /\ createPc.pc = "state"
    /\ s \in SnapshotsOf(createPc.id)
    /\ simulationState' = setSimulationState(simulationState, s)
    /\ objDirty' = TRUE
    /\ createPc' = [createPc EXCEPT !.pc = "metrics", !.snap = s]
    /\ UNCHANGED <<canvasVars, configVars>>
    /\ lastOp' = [Op("fetch", 0) EXCEPT !.data = s]
    /\ UNCHANGED <<simulationId, metrics, historicalMetrics, isRunning,
                   isLoading, error, hookVars, rendered, restartPc, stepPc,
                   simCount, inbox, delivered>>

\* createNewSimulation: getMetrics resolved with the metrics mt; finally.
CreateMetricsResolved(mt) ==
    /\ createPc.pc = "metrics"
    /\ mt \in SnapshotsOf(createPc.id)
    /\ metrics' = mt
    /\ historicalMetrics' = HistoryOf(createPc.snap)
    /\ error' = "none"
    /\ isLoading' = FALSE
    /\ objDirty' = TRUE
    /\ createPc' = IdleCreate
    /\ UNCHANGED <<canvasVars, configVars>>
    /\ lastOp' = Op("other", 0)
    /\ UNCHANGED <<simulationId, simulationState, isRunning, hookVars, rendered,
                   restartPc, stepPc, simCount, inbox, delivered>>

\* createNewSimulation: any of its three requests rejected; catch, finally.
CreateRejected ==
    /\ createPc.pc \in {"create", "state", "metrics"}
    /\ error' = "create"
    /\ isLoading' = FALSE
    /\ createPc' = IdleCreate
    /\ UNCHANGED <<canvasVars, configVars>>
    /\ lastOp' = [Op("rejected", 0) EXCEPT
                     !.kind = IF createPc.pc = "create" THEN "create" ELSE "fetch"]
    /\ UNCHANGED <<simulationId, simulationState, metrics, historicalMetrics,
                   isRunning, hookVars, rendered, objDirty, restartPc, stepPc,
                   simCount, inbox, delivered>>

\* handleToggleRunning (click): setIsRunning(!isRunning), flushed.
ToggleRunning ==
    /\ MainScreen
    /\ isRunning' = ~rendered.isRunning
    /\ DoCommit(Mem, [CurrentView EXCEPT !.isRunning = ~rendered.isRunning],
                objDirty)
    /\ UNCHANGED <<canvasVars, simConfigs, algoPc>>
    /\ lastOp' = Op("toggle", 0)
    /\ UNCHANGED <<simulationId, simulationState, metrics, historicalMetrics,
                   isLoading, error, createPc, restartPc, stepPc, simCount,
                   inbox, delivered>>

\* handleRestartSimulation (click) up to its first await.
RestartClick ==
    /\ MainScreen
    /\ restartPc.pc = "idle"
    /\ simCount < MaxSims
    /\ isLoading' = TRUE
    /\ isRunning' = FALSE
    /\ DoCommit(Mem, [CurrentView EXCEPT !.isLoading = TRUE, !.isRunning = FALSE],
                objDirty)
    /\ restartPc' = [pc |-> "create", id |-> Null, panel |-> panelConfig]
    /\ UNCHANGED <<canvasVars, simConfigs, algoPc>>
    /\ lastOp' = Op("restart", 0)
    /\ UNCHANGED <<simulationId, simulationState, metrics, historicalMetrics,
                   error, createPc, stepPc, simCount, inbox, delivered>>

\* handleRestartSimulation: createSimulation resolved.
RestartCreateResolved ==
    /\ restartPc.pc = "create"
    /\ simCount < MaxSims
    /\ simCount' = simCount + 1
    /\ simulationId' = simCount + 1
    /\ restartPc' = [restartPc EXCEPT !.pc = "state", !.id = simCount + 1]
    /\ simConfigs' = [simConfigs EXCEPT ![simCount + 1] = CreateConfig]
    /\ UNCHANGED <<canvasVars, panelConfig, algoPc>>
    /\ lastOp' = Op("other", 0)
    /\ UNCHANGED <<simulationState, metrics, historicalMetrics, isRunning,
                   isLoading, error, hookVars, rendered, objDirty, createPc,
                   stepPc, inbox, delivered>>

\* handleRestartSimulation: getSimulationState resolved; finally.
RestartStateResolved(s) ==
    /\ restartPc.pc = "state"
    /\ s \in SnapshotsOf(restartPc.id)
    /\ simulationState' = setSimulationState(simulationState, s)
    /\ error' = "none"
    /\ isLoading' = FALSE
    /\ objDirty' = TRUE
    /\ restartPc' = [restartPc EXCEPT !.pc = "idle"]
    /\ UNCHANGED <<canvasVars, configVars>>
    /\ lastOp' = [Op("fetch", 0) EXCEPT !.data = s]
    /\ UNCHANGED <<simulationId, metrics, historicalMetrics, isRunning,
                   hookVars, rendered, createPc, stepPc, simCount, inbox,
                   delivered>>

\* handleRestartSimulation: a request rejected; catch, finally.
RestartRejected ==
    /\ restartPc.pc \in {"create", "state"}
    /\ error' = "restart"
    /\ isLoading' = FALSE
    /\ restartPc' = IdleRestart
    /\ UNCHANGED <<canvasVars, configVars>>
    /\ lastOp' = [Op("rejected", 0) EXCEPT
                     !.kind = IF restartPc.pc = "create" THEN "create" ELSE "fetch"]
    /\ UNCHANGED <<simulationId, simulationState, metrics, historicalMetrics,
                   isRunning, hookVars, rendered, objDirty, createPc, stepPc,
                   simCount, inbox, delivered>>

\* ControlPanel.handleStep (click) up to its await: the closure keeps the
\* props of the render that drew the button.
StepClick ==
    /\ MainScreen
    /\ ~rendered.isRunning
    /\ rendered.simId # Null
    /\ stepPc.pc = "idle"
    /\ stepPc' = [IdleStep EXCEPT !.pc = "panel", !.simId = rendered.simId,
                                  !.isConnected = rendered.isConnected,
                                  !.calls = 1, !.steps = PanelSteps]
    /\ UNCHANGED <<canvasVars, configVars>>
    /\ lastOp' = Op("other", 0)
    /\ UNCHANGED <<appVars, hookVars, rendered, objDirty, createPc, restartPc,
                   simCount, inbox, delivered>>

\* ControlPanel.handleStep: stepSimulation resolved, onStep() is App's
\* handleStep, which sends on the channel or starts the fallback.
StepPanelResolved ==
    /\ stepPc.pc = "panel"
    /\ IF stepPc.isConnected
       THEN /\ stepPc' = [stepPc EXCEPT !.pc = "idle", !.outcome = "done",
                                        !.sent = sendStep(Mem)]
            /\ UNCHANGED <<canvasVars, configVars>>
            /\ lastOp' = Op("sendStep", sendStep(Mem))
       ELSE /\ stepPc' = [stepPc EXCEPT !.pc = "appStep", !.calls = @ + 1,
                                        !.steps = @ + FallbackSteps]
            /\ UNCHANGED <<canvasVars, configVars>>
            /\ lastOp' = Op("fallback", 0)
    /\ UNCHANGED <<appVars, hookVars, rendered, objDirty, createPc, restartPc,
                   simCount, inbox, delivered>>

\* App.handleStep: stepSimulation(simulationId, 10) resolved.
StepAppResolved ==
    /\ stepPc.pc = "appStep"
    /\ stepPc' = [stepPc EXCEPT !.pc = "appState", !.fetches = @ + 1]
    /\ UNCHANGED <<canvasVars, configVars>>
    /\ lastOp' = Op("other", 0)
    /\ UNCHANGED <<appVars, hookVars, rendered, objDirty, createPc, restartPc,
                   simCount, inbox, delivered>>

\* App.handleStep: getSimulationState resolved with snapshot s.
StepStateResolved(s) ==
    /\ stepPc.pc = "appState"
    /\ s \in SnapshotsOf(stepPc.simId)
    /\ simulationState' = setSimulationState(simulationState, s)
    /\ objDirty' = TRUE
    /\ stepPc' = [stepPc EXCEPT !.pc = "idle", !.outcome = "done"]
    /\ UNCHANGED <<canvasVars, configVars>>
    /\ lastOp' = [Op("fetch", 0) EXCEPT !.data = s]
    /\ UNCHANGED <<simulationId, metrics, historicalMetrics, isRunning,
                   isLoading, error, hookVars, rendered, createPc, restartPc,
                   simCount, inbox, delivered>>

\* A request of the step flow rejected: both handlers only log it.
StepRejected ==
    /\ stepPc.pc \in {"panel", "appStep", "appState"}
    /\ stepPc' = [stepPc EXCEPT !.pc = "idle", !.outcome = "rejected"]
    /\ UNCHANGED <<canvasVars, configVars>>
    /\ lastOp' = [Op("rejected", 0) EXCEPT
                     !.kind = IF stepPc.pc = "appState" THEN "fetch" ELSE "step"]
    /\ UNCHANGED <<appVars, hookVars, rendered, objDirty, createPc, restartPc,
                   simCount, inbox, delivered>>

\* ------------------------------------------- the hook's returned functions
\* The returned connect: clearTimeout on the ref (not reset), then connect
\* of the last render.
ManualConnect ==
    /\ rendered.simId # Null
    /\ CanConnect(Mem, rendered.simId)
    /\ Store(connect(IF reconnectTimeoutRef # NullTimer
                     THEN ClearTimeoutRef(Mem) ELSE Mem,
                     rendered.simId))
    /\ UNCHANGED <<canvasVars, configVars>>
    /\ lastOp' = Op("manualConnect", 0)
    /\ UNCHANGED <<appVars, asyncVars, objDirty, inbox, delivered>>

\* The returned disconnect.
ManualDisconnect ==
    /\ Store(disconnect(Mem))
    /\ UNCHANGED <<canvasVars, configVars>>
    /\ lastOp' = Op("disconnect", 0)
    /\ UNCHANGED <<appVars, asyncVars, objDirty, inbox, delivered>>

\* The returned sendStep, called directly.
ManualSendStep ==
    /\ UNCHANGED <<canvasVars, configVars>>
    /\ lastOp' = Op("sendStep", sendStep(Mem))
    /\ UNCHANGED <<appVars, hookVars, asyncVars, objDirty, inbox, delivered>>

\* ControlPanel.handleConfigChange(key, value): setConfig, then
\* onConfigUpdate, which is App.handleConfigUpdate with the simulationId of
\* the last render: updateConfig(simulationId, newConfig).  The backend
\* stores the configuration when the request succeeds (ok); a failure is
\* logged.
ConfigChange(key, value, ok) ==
    /\ MainScreen
    /\ panelConfig' = [panelConfig EXCEPT ![key] = value]
    /\ simConfigs' = IF rendered.simId # Null /\ ok
                     THEN [simConfigs EXCEPT ![rendered.simId] =
                               [panelConfig EXCEPT ![key] = value]]
                     ELSE simConfigs
    /\ UNCHANGED <<canvasVars, algoPc>>
    /\ lastOp' = Op("config", 0)
    /\ UNCHANGED <<appVars, hookVars, asyncVars, objDirty, inbox, delivered>>

\* An algorithm change: where ControlPanel.handleAlgorithmChange is, the
\* props and the config state its closure holds, ControlPanel's isLoading
\* state, and what the change has issued so far: changeAlgorithm requests
\* and updateConfig requests.
IdleAlgo == [pc |-> "idle", simId |-> Null, algorithm |-> "",
             config |-> PanelDefaults, loading |-> FALSE, outcome |-> "none",
             requests |-> 0, updates |-> 0]

\* ControlPanel.handleAlgorithmChange(a) (click on an algorithm button, which
\* is disabled while isLoading and for the algorithm selected) up to its
\* await.  The panel stays mounted in the specifications that select
\* algorithms.
AlgorithmSelect(a) ==
    /\ MainScreen
    /\ algoPc.pc = "idle" /\ ~algoPc.loading
    /\ a # panelConfig.algorithm
    /\ algoPc' = IF rendered.simId = Null
                 THEN [IdleAlgo EXCEPT !.outcome = "noop"]
                 ELSE [IdleAlgo EXCEPT !.pc = "panel", !.simId = rendered.simId,
                                       !.algorithm = a, !.config = panelConfig,
                                       !.loading = TRUE, !.requests = 1]
    /\ UNCHANGED <<canvasVars, panelConfig, simConfigs>>
    /\ lastOp' = Op("algorithm", 0)
    /\ UNCHANGED <<appVars, hookVars, asyncVars, objDirty, inbox, delivered>>

\* ControlPanel.handleAlgorithmChange: changeAlgorithm resolved (the backend
\* has the algorithm).  handleConfigChange('algorithm', a) sets the config
\* state from the closure's config and calls onConfigUpdate, App's
\* handleConfigUpdate: updateConfig, stored by the backend when it succeeds
\* (okUpdate).  onAlgorithmChange is App's handleAlgorithmChange:
\* changeAlgorithm again.  finally: setIsLoading(false).
AlgorithmPanelResolved(okUpdate) ==
    /\ algoPc.pc = "panel"
    /\ panelConfig' = [algoPc.config EXCEPT !.algorithm = algoPc.algorithm]
    /\ simConfigs' =
          [simConfigs EXCEPT ![algoPc.simId] =
              IF okUpdate
              THEN [algoPc.config EXCEPT !.algorithm = algoPc.algorithm]
              ELSE [@ EXCEPT !.algorithm = algoPc.algorithm]]
    /\ algoPc' = [algoPc EXCEPT !.pc = "idle", !.loading = FALSE,
                                !.outcome = "done", !.updates = @ + 1,
                                !.requests = @ + 1]
    /\ UNCHANGED canvasVars
    /\ lastOp' = Op("algorithm", 0)
    /\ UNCHANGED <<appVars, hookVars, asyncVars, objDirty, inbox, delivered>>

\* ControlPanel.handleAlgorithmChange: changeAlgorithm rejected; catch,
\* finally.
AlgorithmPanelRejected ==
    /\ algoPc.pc = "panel"
    /\ algoPc' = [algoPc EXCEPT !.pc = "idle", !.loading = FALSE,
                                !.outcome = "rejected"]
    /\ UNCHANGED <<canvasVars, panelConfig, simConfigs>>
    /\ lastOp' = [Op("rejected", 0) EXCEPT !.kind = "algorithm"]
    /\ UNCHANGED <<appVars, hookVars, asyncVars, objDirty, inbox, delivered>>

\* ------------------------------------------------------- SimulationCanvas
\* A field of a payload: omitted (destructuring gives undefined and the
\* default applies) or an array of entities.
Absent == [present |-> FALSE, items |-> {}]
Field(items) == [present |-> TRUE, items |-> items]

VehicleIds  == 1..MaxVehicles
LightStates == {"RED", "YELLOW", "GREEN"}
\* The signals of a payload: none, or the signal of the crossing in a state.
LightSets == {{}} \cup {{st} : st \in LightStates}

\* A snapshot object as JSON.parse or axios makes it; ref tells the objects
\* apart.  Every payload is parsed into a new object with new arrays.
\* Its config is omitted or holds the grid size.
NoConfig == [present |-> FALSE, grid_width |-> 0, grid_height |-> 0]
Config(w, h) == [present |-> TRUE, grid_width |-> w, grid_height |-> h]
Configs == {NoConfig, Config(GridMax, GridDefault)}
Frame(ref, vs, ls, cfg) ==
    [ref |-> ref, vehicles |-> vs, traffic_lights |-> ls, config |-> cfg]
EmptyFrame == Frame(0, Absent, Absent, NoConfig)
Frames(ref) ==
    {Frame(ref, vs, ls, cfg) :
        vs \in {Absent} \cup {Field(x) : x \in SUBSET VehicleIds},
        ls \in {Absent} \cup {Field(x) : x \in LightSets},
        cfg \in Configs}

\* The array a destructured name is bound to: the payload's own array, or
\* the [] the default expression makes anew in this render.
ArrayOf(frame, field) ==
    [fresh |-> ~field.present, owner |-> frame.ref, items |-> field.items]

\* Object.is on two such arrays: an array made by a default expression is
\* referenced by the render that made it and by nothing else.
SameArray(a, b) == ~a.fresh /\ ~b.fresh /\ a.owner = b.owner

DrawDepsFixedGridMutant(simulationStateProp, isRunningProp) ==
    [vehicles      |-> ArrayOf(simulationStateProp, simulationStateProp.vehicles),
     trafficLights |-> ArrayOf(simulationStateProp, simulationStateProp.traffic_lights),
     gridWidth     |-> GridDefault,
     gridHeight    |-> GridDefault,
     isRunning     |-> isRunningProp]

\* The component body: the destructuring with its defaults, and the
\* dependency array of the draw effect.
DrawDeps(simulationStateProp, isRunningProp) ==
    [vehicles      |-> ArrayOf(simulationStateProp, simulationStateProp.vehicles),
     trafficLights |-> ArrayOf(simulationStateProp, simulationStateProp.traffic_lights),
     gridWidth     |-> IF simulationStateProp.config.present
                       THEN simulationStateProp.config.grid_width
                       ELSE GridDefault,
     gridHeight    |-> IF simulationStateProp.config.present
                       THEN simulationStateProp.config.grid_height
                       ELSE GridDefault,
     isRunning     |-> isRunningProp]

DrawDepsChangedByCountMutant(old, new) ==
    \/ Cardinality(old.vehicles.items) # Cardinality(new.vehicles.items)
    \/ Cardinality(old.trafficLights.items) # Cardinality(new.trafficLights.items)
    \/ old.gridWidth # new.gridWidth
    \/ old.gridHeight # new.gridHeight
    \/ old.isRunning # new.isRunning

\* React's comparison of two dependency arrays.
DrawDepsChanged(old, new) ==
    \/ ~SameArray(old.vehicles, new.vehicles)
    \/ ~SameArray(old.trafficLights, new.trafficLights)
    \/ old.gridWidth # new.gridWidth
    \/ old.gridHeight # new.gridHeight
    \/ old.isRunning # new.isRunning

\* The surface: the vehicle markers and signal markers on it, the grid size
\* their positions were scaled with, whether a YELLOW overlay is on it and
\* the Date.now() its opacity was computed from.
Blank == [vehicles |-> {}, lights |-> {}, overlay |-> FALSE, overlayAt |-> 0,
          gridWidth |-> 0, gridHeight |-> 0]

ClearSurfaceKeepMutant(surface) == surface

\* clearRect and the opaque fillRect over the whole canvas.
ClearSurface(surface) == Blank

\* The draw effect's body.
Draw(surface, deps, now) ==
    LET s0 == ClearSurface(surface)
        s1 == [s0 EXCEPT !.vehicles = @ \cup deps.vehicles.items,
                         !.gridWidth = deps.gridWidth,
                         !.gridHeight = deps.gridHeight]
        yellow == "YELLOW" \in deps.trafficLights.items
    IN  [s1 EXCEPT !.lights = @ \cup deps.trafficLights.items,
                   !.overlay = @ \/ yellow,
                   !.overlayAt = IF yellow THEN now ELSE @]

CanvasStep(name, draws) ==
    [name |-> name, draws |-> draws, prev |-> canvasProps.simulationState,
     before |-> canvas]

\* The snapshots App may hand down at a render: the one it handed down
\* before or one parsed since.
NextFrames ==
    {f \in {canvasProps.simulationState} : f.ref # 0}
    \cup (IF parsed < MaxFrames THEN Frames(parsed + 1) ELSE {})

\* App renders SimulationCanvas with these props (on the main screen): the
\* component body, and at commit the draw effect when the component has
\* just mounted or a dependency changed.
CanvasRender(frame, running) ==
    LET deps == DrawDeps(frame, running)
        run  == ~canvasProps.mounted \/ DrawDepsChanged(drawDeps, deps)
    IN  /\ canvasProps' = [mounted |-> TRUE, simulationState |-> frame,
                           isRunning |-> running]
        /\ drawDeps' = deps
        /\ canvas' = IF run THEN Draw(canvas, deps, clock) ELSE canvas
        /\ parsed' = IF frame.ref > parsed THEN frame.ref ELSE parsed
        /\ canvasOp' = CanvasStep("render", IF run THEN 1 ELSE 0)
        /\ UNCHANGED <<clock, marker, pageVars>>

\* App renders the loading or the error screen: the <canvas> element goes
\* away.  The draw effect returns no cleanup.
CanvasUnmount ==
    /\ canvasProps.mounted
    /\ canvasProps' = [canvasProps EXCEPT !.mounted = FALSE]
    /\ canvas' = Blank
    /\ canvasOp' = CanvasStep("unmount", 0)
    /\ UNCHANGED <<drawDeps, clock, parsed, marker, pageVars>>

\* Time passes.  Nothing in SimulationCanvas is scheduled on the clock.
CanvasTick ==
    /\ clock < MaxClock
    /\ clock' = clock + 1
    /\ canvasOp' = CanvasStep("tick", 0)
    /\ UNCHANGED <<canvasProps, drawDeps, canvas, parsed, marker, pageVars>>

CanvasInit ==
    /\ canvasProps = [mounted |-> FALSE, simulationState |-> EmptyFrame,
                      isRunning |-> FALSE]
    /\ drawDeps = DrawDeps(EmptyFrame, FALSE)
    /\ canvas = Blank
    /\ clock = 0
    /\ parsed = 0
    /\ canvasOp = [name |-> "none", draws |-> 0, prev |-> EmptyFrame,
                   before |-> Blank]

\* -------------------------------------------------------------- renderers
MathMax(a, b) == IF a >= b THEN a ELSE b
MathMin(a, b) == IF a <= b THEN a ELSE b

\* An entity of a payload.  Speeds and waiting times are whole numbers here;
\* a vehicle has no state or direction, a signal no speed or waiting time.
Entity(x, y, speed, waiting, state, direction) ==
    [x |-> x, y |-> y, speed |-> speed, waiting_time |-> waiting,
     state |-> state, direction |-> direction]

GridPoints == {0, GridDefault \div 2, GridDefault}
GridSizes  == {GridDefault, GridMax}
\* Positions on the diagonal of the default grid.
GridPositions == {p \in GridPoints \X GridPoints : p[1] + p[2] = GridDefault}
VehicleEntities ==
    {Entity(p[1], p[2], s, w, "", "") :
        p \in GridPositions, s \in 0..MaxSpeed, w \in 0..MaxWait}
LightEntities ==
    {Entity(p[1], p[2], 0, 0, st, d) :
        p \in GridPositions,
        st \in LightStates \cup {"OFF"}, d \in {"horizontal", "vertical"}}

\* What a renderer puts on the screen for one entity: position, size and
\* look.  Positions are exact for the grid points and grid sizes above.
MarkerOf(renderer, kind, e, left, top, size, width, height, opacity, fill) ==
    [renderer |-> renderer, kind |-> kind, of |-> e, left |-> left,
     top |-> top, size |-> size, width |-> width, height |-> height,
     opacity |-> opacity, fill |-> fill, reported |-> FALSE]
NoEntity == Entity(0, 0, 0, 0, "", "")
NoMarker == MarkerOf("none", "none", NoEntity, 0, 0, 0, 0, 0, 0, "")

\* stateColors[state] || '#666', the same table in both renderers.
StateColor(state) ==
    CASE state = "RED"    -> "#ff4444"
      [] state = "YELLOW" -> "#ffaa00"
      [] state = "GREEN"  -> "#44ff44"
      [] OTHER            -> "#666"

\* SimulationCanvas, vehicles.forEach: the marker of one vehicle.
CanvasScaleX(x, gridWidth)  == (x * CanvasWidth) \div gridWidth
CanvasScaleY(y, gridHeight) == (y * CanvasHeight) \div gridHeight
CanvasVehicleSize(speed) == MathMax(3, MathMin(8, speed * 2))
CanvasOpacityOpaqueMutant(waitingTime) == 100
\* globalAlpha, in hundredths.
CanvasOpacity(waitingTime) == IF waitingTime > 0 THEN 70 ELSE 100
CanvasVehicle(v, gridWidth, gridHeight) ==
    MarkerOf("canvas", "vehicle", v,
             CanvasScaleX(v.x, gridWidth), CanvasScaleY(v.y, gridHeight),
             CanvasVehicleSize(v.speed), 0, 0,
             CanvasOpacity(v.waiting_time), "")

\* SimulationCanvas, trafficLights.forEach: the marker of one signal.
CanvasLight(l, gridWidth, gridHeight) ==
    MarkerOf("canvas", "light", l,
             CanvasScaleX(l.x, gridWidth), CanvasScaleY(l.y, gridHeight), 0,
             IF l.direction = "horizontal" THEN 20 ELSE 8,
             IF l.direction = "horizontal" THEN 8 ELSE 20,
             100, StateColor(l.state))

\* Vehicles.jsx, Vehicle: left and top in percent of the parent.
PercentX(x, gridWidth)  == (x * 100) \div gridWidth
PercentY(y, gridHeight) == (y * 100) \div gridHeight
VehicleSize(speed) == MathMax(2, MathMin(5, speed * 2))
VehicleOpacity(waitingTime) == IF waitingTime > 0 THEN 70 ELSE 100
Vehicle(v, gridWidth, gridHeight) ==
    MarkerOf("Vehicle", "vehicle", v,
             PercentX(v.x, gridWidth), PercentY(v.y, gridHeight),
             VehicleSize(v.speed), 0, 0, VehicleOpacity(v.waiting_time), "")

\* Vehicles.jsx, TrafficLight: `size` is the height, `width` the width.
TrafficLight(l, gridWidth, gridHeight) ==
    LET size  == IF l.direction = "horizontal" THEN 20 ELSE 8
        width == IF l.direction = "horizontal" THEN 8 ELSE 20
    IN  MarkerOf("TrafficLight", "light", l,
                 PercentX(l.x, gridWidth), PercentY(l.y, gridHeight), 0,
                 width, size, 100, StateColor(l.state))

\* A click: where it is in the element's rectangle, the rectangle's size,
\* and whether the owner passed onCanvasClick.
ClickPoints(rect) == {0, rect \div 2, rect}
RectWidths  == {CanvasWidth, CanvasWidth \div 2}
RectHeights == {CanvasHeight}

HandleCanvasClickNoGuardMutant(cx, cy, rectWidth, rectHeight, gridWidth, gridHeight, hasCallback) ==
    [MarkerOf("canvas", "click", Entity(cx, cy, 0, 0, "", ""),
              (cx * gridWidth) \div rectWidth, (cy * gridHeight) \div rectHeight,
              0, rectWidth, rectHeight, 0, "") EXCEPT !.reported = TRUE]

\* SimulationCanvas.handleCanvasClick: the coordinates onCanvasClick is
\* called with, when it is called.
handleCanvasClick(cx, cy, rectWidth, rectHeight, gridWidth, gridHeight, hasCallback) ==
    IF ~hasCallback
    THEN MarkerOf("canvas", "click", Entity(cx, cy, 0, 0, "", ""),
                  0, 0, 0, rectWidth, rectHeight, 0, "")
    ELSE [MarkerOf("canvas", "click", Entity(cx, cy, 0, 0, "", ""),
                   (cx * gridWidth) \div rectWidth,
                   (cy * gridHeight) \div rectHeight,
                   0, rectWidth, rectHeight, 0, "") EXCEPT !.reported = TRUE]

\* One entity goes through one renderer.
DrawVehicle(v, gw, gh) ==
    /\ marker' = [m |-> CanvasVehicle(v, gw, gh), gridWidth |-> gw,
                  gridHeight |-> gh, hasCallback |-> FALSE]
    /\ UNCHANGED <<pageVars, surfaceVars>>

DrawLight(l, gw, gh) ==
    /\ marker' = [m |-> CanvasLight(l, gw, gh), gridWidth |-> gw,
                  gridHeight |-> gh, hasCallback |-> FALSE]
    /\ UNCHANGED <<pageVars, surfaceVars>>

RenderVehicle(v, gw, gh) ==
    /\ marker' = [m |-> Vehicle(v, gw, gh), gridWidth |-> gw,
                  gridHeight |-> gh, hasCallback |-> FALSE]
    /\ UNCHANGED <<pageVars, surfaceVars>>

RenderTrafficLight(l, gw, gh) ==
    /\ marker' = [m |-> TrafficLight(l, gw, gh), gridWidth |-> gw,
                  gridHeight |-> gh, hasCallback |-> FALSE]
    /\ UNCHANGED <<pageVars, surfaceVars>>

\* The user clicks on the canvas.
CanvasClick(cx, cy, rw, rh, gw, gh, hasCallback) ==
    /\ marker' = [m |-> handleCanvasClick(cx, cy, rw, rh, gw, gh, hasCallback),
                  gridWidth |-> gw, gridHeight |-> gh,
                  hasCallback |-> hasCallback]
    /\ UNCHANGED <<pageVars, surfaceVars>>

MarkerInit ==
    marker = [m |-> NoMarker, gridWidth |-> GridDefault,
              gridHeight |-> GridDefault, hasCallback |-> FALSE]

\* ---------------------------------------------------------- specification
Init ==
    /\ simulationId = Null
    /\ simulationState = EmptyState
    /\ metrics = EmptyState
    /\ historicalMetrics = EmptyState
    /\ isRunning = FALSE
    /\ isLoading = TRUE
    /\ error = "none"
    /\ isConnected = FALSE
    /\ wsError = FALSE
    /\ wsRef = NullWs
    /\ reconnectTimeoutRef = NullTimer
    /\ stepIntervalRef = Null
    /\ orphans = EmptyBag
    /\ leaked = EmptyBag
    /\ intervals = {}
    /\ rendered = View(Null, FALSE, FALSE, FALSE, TRUE, "none")
    /\ objDirty = FALSE
    /\ createPc = [pc |-> "create", id |-> Null, snap |-> EmptyState]
    /\ restartPc = IdleRestart
    /\ stepPc = IdleStep
    /\ simCount = 0
    /\ inbox = <<>>
    /\ delivered = <<>>
    /\ lastOp = Op("mount", 0)
    /\ CanvasInit
    /\ MarkerInit
    /\ panelConfig = PanelDefaults
    /\ simConfigs = [i \in SimIds |-> NoCfg]
    /\ algoPc = IdleAlgo

\* The connection manager as App drives it.
Lifecycle ==
    \/ Commit
    \/ \E h \in Sockets : SocketOpen(h)
    \/ \E h \in Sockets : SocketClose(h)
    \/ \E h \in Sockets : SocketError(h)
    \/ Tick
    \/ \E h \in Timers : ReconnectFire(h)
    \/ \E i \in IntvIds : IntervalFire(i)
    \/ CreateResolved
    \/ \E s \in Snapshots : CreateStateResolved(s)
    \/ \E mt \in Snapshots : CreateMetricsResolved(mt)
    \/ CreateRejected
    \/ ToggleRunning

\* ... with the frames of the stream.
Next ==
    \/ Lifecycle
    \/ \E h \in Sockets : \E msg \in MessagesOf(h[2].sim) : SocketMessage(h, msg)

Spec == Init /\ [][Next]_vars

\* ... and with the restart button.
NextRestart ==
    \/ Next
    \/ RestartClick
    \/ RestartCreateResolved
    \/ \E s \in Snapshots : RestartStateResolved(s)
    \/ RestartRejected

SpecRestart == Init /\ [][NextRestart]_vars

\* ... with the functions the hook returns called by its owner.
NextApi ==
    \/ Lifecycle
    \/ ManualConnect
    \/ ManualDisconnect
    \/ ManualSendStep

SpecApi == Init /\ [][NextApi]_vars

\* ... with the step button.
NextStep ==
    \/ Lifecycle
    \/ StepClick
    \/ StepPanelResolved
    \/ StepAppResolved
    \/ \E s \in Snapshots : StepStateResolved(s)
    \/ StepRejected

SpecStep == Init /\ [][NextStep]_vars

\* The inbound stream, recorded: the channel of the first simulation, the
\* frames that arrive on it, and the re-renders they cause.
NextStream ==
    \/ CreateResolved
    \/ Commit
    \/ \E h \in Sockets : SocketOpen(h)
    \/ \E h \in Sockets : \E msg \in MessagesOf(h[2].sim) : RecordedMessage(h, msg)
    \/ \E h \in Sockets : SocketClose(h)

SpecStream == Init /\ [][NextStream]_vars

\* The three ways a snapshot arrives: the stream, the fetch of the step
\* fallback, the fetches of creation and restart.  Close events are left
\* out: they change nothing a snapshot's adoption reads.
NextSnap ==
    \/ CreateResolved
    \/ \E s \in Snapshots : CreateStateResolved(s)
    \/ \E mt \in Snapshots : CreateMetricsResolved(mt)
    \/ Commit
    \/ \E h \in Sockets : SocketOpen(h)
    \/ \E h \in Sockets : \E msg \in MessagesOf(h[2].sim) : SocketMessage(h, msg)
    \/ StepClick
    \/ StepPanelResolved
    \/ StepAppResolved
    \/ \E s \in Snapshots : StepStateResolved(s)
    \/ RestartClick
    \/ RestartCreateResolved
    \/ \E s \in Snapshots : RestartStateResolved(s)

SpecSnap == Init /\ [][NextSnap]_vars

\* The reconnect loop alone, with the scheduling the browser and React
\* guarantee: a pending render is committed, the clock advances, a timeout
\* whose delay has elapsed fires, and a socket close() was called on
\* reaches CLOSED.
NextRetry ==
    \/ CreateResolved
    \/ Commit
    \/ \E h \in Sockets : SocketOpen(h)
    \/ \E h \in Sockets : SocketClose(h)
    \/ \E h \in Sockets : SocketError(h)
    \/ Tick
    \/ \E h \in Timers : ReconnectFire(h)
    \/ ManualDisconnect

SpecRetry ==
    /\ Init /\ [][NextRetry]_vars
    /\ WF_vars(Commit)
    /\ WF_vars(Tick)
    /\ WF_vars(\E h \in Timers : ReconnectFire(h))
    /\ WF_vars(\E h \in Sockets : h[2].state = "CLOSING" /\ SocketClose(h))

\* SimulationCanvas alone, with the props App may give it.
NextCanvas ==
    \/ \E running \in BOOLEAN : \E frame \in NextFrames : CanvasRender(frame, running)
    \/ CanvasUnmount
    \/ CanvasTick

SpecCanvas == Init /\ [][NextCanvas]_vars

\* The control panel's configuration and the restart button.
NextConfig ==
    \/ CreateResolved
    \/ \E s \in Snapshots : CreateStateResolved(s)
    \/ \E mt \in Snapshots : CreateMetricsResolved(mt)
    \/ Commit
    \/ \E h \in Sockets : SocketOpen(h)
    \/ \E key \in {"num_vehicles", "grid_width"} : \E value \in ConfigValues(key) :
         \E ok \in BOOLEAN : ConfigChange(key, value, ok)
    \/ RestartClick
    \/ RestartCreateResolved
    \/ \E s \in Snapshots : RestartStateResolved(s)
    \/ RestartRejected

SpecConfig == Init /\ [][NextConfig]_vars

\* The control panel's handlers around the creation of the simulation.
NextPanel ==
    \/ CreateResolved
    \/ \E s \in Snapshots : CreateStateResolved(s)
    \/ \E mt \in Snapshots : CreateMetricsResolved(mt)
    \/ CreateRejected
    \/ Commit
    \/ \E h \in Sockets : SocketOpen(h)
    \/ \E h \in Sockets : SocketClose(h)
    \/ \E key \in {"num_vehicles", "grid_width"} : \E value \in ConfigValues(key) :
         \E ok \in BOOLEAN : ConfigChange(key, value, ok)
    \/ \E a \in AlgorithmIds : AlgorithmSelect(a)
    \/ \E okUpdate \in BOOLEAN : AlgorithmPanelResolved(okUpdate)
    \/ AlgorithmPanelRejected
    \/ ManualConnect
    \/ ManualSendStep

SpecPanel == Init /\ [][NextPanel]_vars

\* The renderers alone, one entity or one click at a time.
NextMarkers ==
    \/ \E v \in VehicleEntities : \E gw, gh \in GridSizes : DrawVehicle(v, gw, gh)
    \/ \E l \in LightEntities : \E gw, gh \in GridSizes : DrawLight(l, gw, gh)
    \/ \E v \in VehicleEntities : \E gw, gh \in GridSizes : RenderVehicle(v, gw, gh)
    \/ \E l \in LightEntities : \E gw, gh \in GridSizes : RenderTrafficLight(l, gw, gh)
    \/ \E rw \in RectWidths : \E rh \in RectHeights :
         \E cx \in ClickPoints(rw) : \E cy \in ClickPoints(rh) :
           \E gw, gh \in GridSizes : \E cb \in BOOLEAN :
             CanvasClick(cx, cy, rw, rh, gw, gh, cb)

SpecMarkers == Init /\ [][NextMarkers]_vars

\* ================================================================ claims
\* The WebSocket objects alive, referenced or not.
AllSockets(m) ==
    BagToSet(m.orphans) \cup (IF m.wsRef = NullWs THEN {} ELSE {m.wsRef})

\* How many of them are connecting or open.
LiveChannels(m) ==
    BagCardinality([ws \in {x \in BagToSet(m.orphans) :
                              x.state \in {"CONNECTING", "OPEN"}}
                      |-> m.orphans[ws]])
    + (IF m.wsRef.state \in {"CONNECTING", "OPEN"} THEN 1 ELSE 0)

\* C1: in every reachable state at most one channel is connecting or open,
\* and every channel that connect() or disconnect() replaced has been
\* terminated (close() was called on it) by the time the new one exists.
C1_SingleLiveChannel ==
    /\ LiveChannels(Mem) <= 1
    /\ \A ws \in BagToSet(orphans) : ws.state = "CLOSING"

\* connect() ran while a channel existed: the old one is closing, the new
\* one connecting.
C1_Witness ==
    /\ lastOp.name = "manualConnect"
    /\ wsRef.state = "CONNECTING"
    /\ BagCardinality(orphans) >= 1

\* The timeouts pending, referenced or leaked.
PendingBag(m) ==
    m.leaked (+) (IF m.reconnectTimeoutRef.ref = "pending"
                  THEN One(m.reconnectTimeoutRef) ELSE EmptyBag)

\* The step ran disconnect(): the returned function was called, or a commit
\* ran the cleanup of a lifecycle effect that had a simId.
DisconnectRan ==
    \/ lastOp'.name = "disconnect"
    \/ lastOp'.name \in {"commit", "toggle", "restart"} /\ rendered.simId # Null

\* C2 (as claimed): after disconnect() no reconnect timeout and no step
\* interval is left, and while the manager holds no channel no timer fires
\* (so nothing but the next open() gives it a channel again), also when the
\* close event of the socket that disconnect() closed arrives afterwards.
C2_CloseCancelsAllTimers ==
    [][/\ lastOp'.name = "disconnect" =>
            PendingTimers(Mem)' = 0 /\ intervals' = {}
       /\ wsRef = NullWs => lastOp'.name \notin {"reconnect", "pace"}]_vars

\* C3 (as claimed): an unexpected close schedules exactly one reconnect
\* timeout, with the full delay; a timeout fires only when its delay has
\* elapsed; and once disconnect() has run no timeout scheduled by an
\* unexpected close is left to fire.
C3_OneCancellableReconnect ==
    [][/\ lastOp'.name = "close" /\ lastOp'.kind = "unexpected" =>
            /\ PendingTimers(Mem)' = PendingTimers(Mem) + 1
            /\ reconnectTimeoutRef'.ref = "pending"
            /\ reconnectTimeoutRef'.remaining = ReconnectDelayMs
       /\ lastOp'.name = "reconnect" =>
            \A t \in BagToSet(PendingBag(Mem) (-) PendingBag(Mem)') :
                t.remaining = 0
       /\ DisconnectRan =>
            \A t \in BagToSet(PendingBag(Mem)') : ~t.unexpected]_vars

\* C4 (as claimed): once the lifecycle effect has run for the identifier a
\* restart installed, no channel for another identifier is connecting or
\* open, and no snapshot of another identifier is handed to App's state.
C4_NoStaleIdentifier ==
    [][/\ rendered'.simId = simulationId' =>
            \A ws \in AllSockets(Mem') :
                ws.state \in {"CONNECTING", "OPEN"} => ws.sim = simulationId'
       /\ rendered.simId = simulationId /\ lastOp'.name = "message"
          /\ lastOp'.handled = 1 =>
            simulationState'.sim = simulationId]_vars

\* C5 (as claimed): disconnect() leaves the manager disconnected with no
\* channel and no timers, and a second disconnect() changes nothing; and
\* whatever the number of connect() calls, there is one channel at most and
\* no second reconnect timeout or step interval, also after the close event
\* of a replaced channel.
C5_Idempotent ==
    [][/\ lastOp'.name = "disconnect" =>
            /\ wsRef' = NullWs /\ ~isConnected'
            /\ PendingTimers(Mem)' = 0 /\ intervals' = {}
            /\ disconnect(Mem') = Mem'
       /\ LiveChannels(Mem') <= 1
       /\ PendingTimers(Mem)' <= 1
       /\ Cardinality(intervals') <= 1]_vars

\* C6 (as claimed): every tick of the step interval that finds the running
\* flag set and the manager Connected sends one advance signal, and no tick
\* sends or even runs once the running flag is false.
C6_PacedAdvance ==
    [][lastOp'.name = "pace" =>
          /\ isRunning
          /\ isConnected => lastOp'.sent = 1]_vars

\* C7 (as claimed): a step interval exists only while running is set and
\* the manager is Connected; every close or error event leaves the manager
\* not Connected with no step interval; and a tick that cannot send leaves
\* nothing behind to be sent later.
C7_PacingOnlyWhileConnected ==
    [][/\ intervals' # {} => isRunning' /\ isConnected'
       /\ lastOp'.name = "close" => ~isConnected' /\ intervals' = {}
       /\ lastOp'.name = "pace" /\ lastOp'.sent = 0 => UNCHANGED hookVars]_vars

\* C8 (as claimed): sendStep() puts exactly one advance signal on the wire
\* when isConnected is true and none when it is false, and changes nothing
\* else.
C8_SendStepIffConnected ==
    [][lastOp'.name = "sendStep" =>
          /\ lastOp'.sent = (IF isConnected THEN 1 ELSE 0)
          /\ UNCHANGED hookVars]_vars

\* The data of the frames of a stream that parse and are tagged neither
\* ping nor pong, in order.
SnapshotData(log) ==
    LET F[i \in 0..Len(log)] ==
            IF i = 0 THEN <<>>
            ELSE IF log[i].kind = "snapshot" THEN Append(F[i - 1], log[i].data)
            ELSE F[i - 1]
    IN  F[Len(log)]

Kinds(log) == [i \in 1..Len(log) |-> log[i].kind]

\* C9: for every inbound stream the handler has been invoked exactly once,
\* in order, for each frame that is tagged neither ping nor pong, and never
\* for a ping or a pong; the stream ping, snapshot, pong gives exactly one
\* invocation.
C9_HandlerOncePerSnapshot ==
    /\ delivered = SnapshotData(inbox)
    /\ Kinds(inbox) = <<"ping", "snapshot", "pong">> => Len(delivered) = 1

\* The stream ping, snapshot, pong has arrived and its snapshot is held.
C9_Witness ==
    /\ Kinds(inbox) = <<"ping", "snapshot", "pong">>
    /\ delivered = <<inbox[2].data>>
    /\ simulationState = inbox[2].data

\* C10: a frame that does not parse changes neither the channel (still
\* open), nor isConnected, nor a timer, nor the held snapshot, and the held
\* snapshot is replaced only when a valid snapshot arrives (streamed or
\* fetched).
C10_MalformedIgnored ==
    [][/\ lastOp'.name = "message" /\ lastOp'.kind = "malformed" =>
            /\ UNCHANGED <<hookVars, simulationState, metrics,
                           historicalMetrics, objDirty>>
            /\ wsRef'.state = "OPEN"
       /\ simulationState' # simulationState =>
            \/ lastOp'.name = "message" /\ lastOp'.kind = "snapshot"
            \/ lastOp'.name = "fetch"]_vars

\* A malformed frame has arrived on the open channel while a snapshot was
\* held and the step interval was running.
C10_Witness ==
    /\ lastOp.name = "message" /\ lastOp.kind = "malformed"
    /\ simulationState # EmptyState
    /\ wsRef.state = "OPEN" /\ isConnected
    /\ intervals # {}

\* C11: every unexpected close is eventually followed by a further connect()
\* (the reconnect timeout firing, or the lifecycle effect of a later render),
\* unless disconnect() is called first; this holds for the failure of a
\* reconnect attempt too, any number of times, as the manager keeps no
\* count of attempts.
C11_RetriesForever ==
    (lastOp.name = "close" /\ lastOp.kind = "unexpected")
        ~> \/ lastOp.name = "reconnect"
           \/ lastOp.name = "commit" /\ rendered.simId # Null
           \/ lastOp.name = "disconnect"

\* A reconnect timeout has fired after a failed attempt: the error flag of
\* the failure is still up and the next attempt is connecting.
C11_Witness ==
    /\ lastOp.name = "reconnect"
    /\ wsRef.state = "CONNECTING"
    /\ wsError

\* C12 (as claimed): never more than one reconnect timeout is pending; when
\* a reconnect attempt starts, automatic (the timeout firing) or manual (the
\* returned connect), no reconnect timeout is left pending; and never more
\* than one channel is connecting or open.
C12_OneRetryTimer ==
    [][/\ PendingTimers(Mem)' <= 1
       /\ lastOp'.name \in {"reconnect", "manualConnect"} =>
            PendingTimers(Mem)' = 0
       /\ LiveChannels(Mem') <= 1]_vars

\* C13 (as claimed): a step request that completes with the channel
\* Connected has issued no stepSimulation call and one advance signal; one
\* that completes with the channel not Connected has issued exactly one
\* stepSimulation call, for the fixed count, and exactly one
\* getSimulationState, whose result is the held snapshot at completion.
C13_StepOnePath ==
    [][stepPc.pc # "idle" /\ stepPc'.pc = "idle" /\ stepPc'.outcome = "done" =>
          IF stepPc'.isConnected
          THEN stepPc'.calls = 0 /\ stepPc'.sent = 1
          ELSE /\ stepPc'.calls = 1 /\ stepPc'.steps = FallbackSteps
               /\ stepPc'.fetches = 1
               /\ lastOp'.name = "fetch"
               /\ simulationState'.sim = stepPc'.simId]_vars

\* The last step was the arrival of a snapshot: a streamed frame handed to
\* the handler, or a getSimulationState response.
SnapshotArrived ==
    \/ lastOp.name = "fetch"
    \/ lastOp.name = "message" /\ lastOp.kind = "snapshot"

\* C14: whenever a snapshot arrives, streamed or fetched, the held snapshot
\* becomes that snapshot, whole, and the held snapshot changes at no other
\* step.
C14_LastSnapshotWins ==
    [][/\ SnapshotArrived' => simulationState' = lastOp'.data
       /\ simulationState' # simulationState => SnapshotArrived']_vars

\* A streamed snapshot of the second simulation has replaced what was held.
C14_Witness ==
    /\ lastOp.name = "message" /\ lastOp.kind = "snapshot"
    /\ simulationId = 2
    /\ simulationState = lastOp.data
    /\ simulationState.sim = 2

\* C15 (as claimed): once the handlers that adopt a snapshot have finished
\* without error, the current and the historical metrics are those of the
\* held snapshot.
C15_MetricsOfHeldSnapshot ==
    /\ createPc.pc = "done" /\ restartPc.pc = "idle" /\ stepPc.pc = "idle"
    /\ error = "none"
    /\ simulationState # EmptyState
    => /\ metrics = MetricsOf(simulationState)
       /\ historicalMetrics = HistoryOf(simulationState)

\* C16 (as claimed): when a create or step request of the Control Client
\* fails, the handler that issued it ends there (nothing is issued again),
\* the held snapshot and the identifier stay as they were, and App is left
\* in its error state.
C16_FailurePropagated ==
    [][lastOp'.name = "rejected" /\ lastOp'.kind \in {"create", "step"} =>
          /\ createPc'.pc = "done" /\ restartPc'.pc = "idle" /\ stepPc'.pc = "idle"
          /\ simulationState' = simulationState
          /\ simulationId' = simulationId
          /\ error' # "none"]_vars

\* The last restart succeeded and App has rendered with its identifier.
RestartSettled ==
    /\ restartPc.pc = "idle" /\ restartPc.id # Null
    /\ rendered.simId = simulationId

\* C17 (as claimed): the restart handler turns running off at its first
\* step and running stays off until the handler has finished; and when a
\* successful restart has settled, the identifier is the one it created and
\* no channel of another identifier is connecting or open.
C17_RestartResets ==
    [][/\ restartPc.pc # "idle" \/ restartPc'.pc # "idle" => ~isRunning'
       /\ ~RestartSettled /\ RestartSettled' =>
            /\ simulationId' = restartPc'.id
            /\ \A ws \in AllSockets(Mem') :
                 ws.state \in {"CONNECTING", "OPEN"} => ws.sim = simulationId']_vars


\* What the props' snapshot holds, as sets of entities.
VehiclesOf(frame) == frame.vehicles.items
SignalsOf(frame)  == frame.traffic_lights.items

\* C18: after the redraw for a snapshot, the vehicles and signals on the
\* surface are exactly the vehicles and signals of that snapshot: the redraw
\* clears the whole surface first, so nothing drawn for the snapshot before
\* is left on it.
C18_OnlyCurrentEntities ==
    canvasOp.draws = 1 =>
        /\ canvas.vehicles = VehiclesOf(canvasProps.simulationState)
        /\ canvas.lights = SignalsOf(canvasProps.simulationState)

\* A redraw over a surface that showed vehicle 1 and a RED signal, for a
\* snapshot with no vehicle and a GREEN signal.
C18_Witness ==
    /\ canvasOp.name = "render" /\ canvasOp.draws = 1
    /\ canvasOp.before.vehicles = {1} /\ canvasOp.before.lights = {"RED"}
    /\ canvasOp.prev.ref < canvasProps.simulationState.ref
    /\ canvasProps.simulationState.vehicles = Field({})
    /\ canvas.vehicles = {} /\ canvas.lights = {"GREEN"}

\* C19: every render of the canvas with another snapshot object than the
\* render before runs the draw effect once, also when the new snapshot has
\* as many vehicles and signals as the old one and when it omits the
\* vehicles or the traffic_lights field.
C19_SnapshotChangeRedraws ==
    [][canvasProps'.simulationState # canvasProps.simulationState =>
          canvasOp'.draws = 1]_vars

\* A redraw for a snapshot with as many vehicles as the one drawn before
\* and no traffic_lights field, with the running flag as it was.
C19_Witness ==
    /\ canvasOp.name = "render" /\ canvasOp.draws = 1
    /\ canvasOp.before.vehicles = {1}
    /\ VehiclesOf(canvasOp.prev) = {1}
    /\ canvasOp.prev.ref < canvasProps.simulationState.ref
    /\ canvasProps.simulationState.vehicles = Field({1})
    /\ canvasProps.simulationState.traffic_lights = Absent
    /\ canvas.vehicles = {1}

\* C20: while a YELLOW overlay is on the surface and the props stay as they
\* are, the surface is repainted as time passes, so that the overlay's
\* opacity is the one of the current wall-clock time.
C20_BlinkFollowsClock ==
    [][canvas.overlay /\ clock' # clock /\ canvasProps' = canvasProps =>
          canvas'.overlay /\ canvas'.overlayAt = clock']_vars

\* clamp(v, lo, hi) as the specification words it.
Clamp(v, lo, hi) == IF v < lo THEN lo ELSE IF v > hi THEN hi ELSE v

\* C21: whichever renderer draws a vehicle, the marker's size is
\* clamp(speed * 2, 3, 8): 3 at speed 0, 4 at speed 2, 8 at speed 10.
C21_VehicleSizeClamped ==
    marker.m.kind = "vehicle" =>
        /\ marker.m.size = Clamp(marker.m.of.speed * 2, 3, 8)
        /\ marker.m.of.speed = 0 => marker.m.size = 3
        /\ marker.m.of.speed = 2 => marker.m.size = 4
        /\ marker.m.of.speed = 10 => marker.m.size = 8

C23_ClickToGrid ==
    marker.m.kind = "click" =>
        IF marker.hasCallback
        THEN /\ marker.m.reported
             /\ marker.m.left * marker.m.width = marker.m.of.x * marker.gridWidth
             /\ marker.m.top * marker.m.height = marker.m.of.y * marker.gridHeight
             /\ /\ marker.m.of.x * 2 = marker.m.width
                /\ marker.m.of.y * 2 = marker.m.height
                /\ marker.gridWidth = 100 /\ marker.gridHeight = 100
                => marker.m.left = 50 /\ marker.m.top = 50
        ELSE ~marker.m.reported

\* A click at the centre of the canvas on a grid of 100 by 100.
C23_Witness ==
    /\ marker.m.kind = "click" /\ marker.hasCallback /\ marker.m.reported
    /\ marker.m.of.x = 400 /\ marker.m.of.y = 300
    /\ marker.m.width = 800 /\ marker.m.height = 600
    /\ marker.gridWidth = 100 /\ marker.gridHeight = 100
    /\ marker.m.left = 50 /\ marker.m.top = 50

\* C24: whichever renderer draws a signal, the marker is wider than high
\* when the direction is horizontal and higher than wide otherwise, and it
\* is filled with the colour of its state, gray for a state that is not
\* RED, YELLOW or GREEN.
C24_SignalMarker ==
    marker.m.kind = "light" =>
        /\ IF marker.m.of.direction = "horizontal"
           THEN marker.m.width > marker.m.height
           ELSE marker.m.height > marker.m.width
        /\ marker.m.fill = CASE marker.m.of.state = "RED"    -> "#ff4444"
                             [] marker.m.of.state = "YELLOW" -> "#ffaa00"
                             [] marker.m.of.state = "GREEN"  -> "#44ff44"
                             [] OTHER                        -> "#666"

\* C25: a vehicle that is waiting is drawn with opacity 0.7, one that is
\* not with opacity 1.0, by either renderer.
C25_WaitingOpacity ==
    marker.m.kind = "vehicle" =>
        marker.m.opacity = IF marker.m.of.waiting_time > 0 THEN 70 ELSE 100

\* A waiting vehicle drawn on the canvas.
C25_Witness ==
    /\ marker.m.kind = "vehicle" /\ marker.m.renderer = "canvas"
    /\ marker.m.of.waiting_time > 0 /\ marker.m.opacity = 70

\* C26: a step message goes out only on a channel that is open when it is
\* sent, whether the pacing interval or a call of sendStep sends it: none on
\* a connecting, closing or closed channel, none without a channel.
C26_StepOnlyOnOpenChannel ==
    [][lastOp'.sent = 1 =>
          /\ lastOp'.name \in {"pace", "sendStep"}
          /\ wsRef # NullWs /\ wsRef.state = "OPEN"
          /\ wsRef' = wsRef]_vars

\* The pacing interval has just sent on the open channel.
C26_Witness ==
    /\ lastOp.name = "pace" /\ lastOp.sent = 1
    /\ wsRef.state = "OPEN" /\ isRunning

\* C27: a restart keeps the configuration: the simulation a successful
\* restart has created has the configuration the control panel showed when
\* the restart was asked for, and the panel shows it afterwards.
C27_RestartKeepsConfig ==
    [][restartPc.pc = "state" /\ restartPc'.pc = "idle" /\ restartPc'.id # Null =>
          /\ simConfigs'[restartPc'.id] = restartPc'.panel
          /\ panelConfig' = restartPc'.panel]_vars

\* C28: an open channel for the identifier in use stays the same open
\* channel through a re-render that keeps the identifier, whatever caused
\* it: a snapshot handed to the handler, a change of the connectivity flag
\* or a change of the running flag.
C28_ChannelStable ==
    [][/\ wsRef.state = "OPEN" /\ wsRef.sim = rendered.simId
       /\ lastOp'.name \in {"commit", "toggle", "message"}
       /\ rendered'.simId = rendered.simId
       => wsRef' = wsRef /\ orphans' = orphans]_vars

\* C29: the connectivity flag agrees with the current channel: isConnected
\* is true only while the socket wsRef names, the one sendStep would use, is
\* open.
C29_FlagAgreesWithChannel ==
    isConnected => wsRef # NullWs /\ wsRef.state = "OPEN"

\* C30: at most one step interval exists at any time, and it is the one
\* stepIntervalRef names: whatever the running flag, the connectivity flag,
\* close events and disconnect() do, an interval is created only once the
\* one before has been cleared, so no interval is leaked.
C30_OnePacingInterval ==
    /\ Cardinality(intervals) <= 1
    /\ intervals # {} => intervals = {stepIntervalRef}

\* The running flag was just set with the manager Connected, after a close
\* event had scheduled a reconnect: the step effect has made the one
\* interval there is.
C30_Witness ==
    /\ lastOp.name = "toggle" /\ isRunning /\ rendered.isConnected
    /\ intervals = {stepIntervalRef}
    /\ PendingTimers(Mem) > 0

\* C31: selecting an algorithm with an identifier in use issues exactly one
\* change-algorithm request; when that request fails the algorithm the
\* panel shows stays as it was and no config update follows; and either way
\* the panel's loading flag is false again.
C31_OneAlgorithmRequest ==
    [][algoPc.pc = "panel" /\ algoPc'.pc = "idle" =>
          /\ algoPc'.requests = 1
          /\ ~algoPc'.loading
          /\ algoPc'.outcome = "rejected" =>
                /\ panelConfig' = panelConfig
                /\ simConfigs' = simConfigs
                /\ algoPc'.updates = 0]_vars

\* C32: while no simulation identifier is held there is no channel, no
\* reconnect timeout, no step interval, and the connectivity flag is false;
\* no step is sent and no step, config-update or algorithm-change request is
\* issued; and an initial creation that fails leaves the identifier unset
\* and sets the error state.
C32_NothingWithoutIdentifier ==
    [][/\ simulationId' = Null =>
             /\ wsRef' = NullWs /\ orphans' = EmptyBag
             /\ PendingTimers(Mem)' = 0 /\ intervals' = {}
             /\ ~isConnected'
       /\ simulationId = Null /\ simulationId' = Null =>
             /\ lastOp'.sent = 0
             /\ stepPc' = stepPc /\ algoPc' = algoPc
             /\ simConfigs' = simConfigs
       /\ createPc.pc # "done" /\ createPc'.pc = "done"
          /\ lastOp'.name = "rejected" =>
             simulationId' = Null /\ error' # "none"]_vars

=============================================================================
